---- MODULE Spec2Model ----
(***************************************************************************)
(* Model of safesearch/safe-search-vision-api.py: one run of main(), i.e.  *)
(* VideoSafeSearchAnalyzer.extract_frames (the frame sampler),             *)
(* analyze_frame_safety (the scorer), analyze_video (the aggregator) and   *)
(* the exit status main() ends with.                                       *)
(*                                                                         *)
(* Units.  interval_seconds is a float; the model draws it from multiples  *)
(* of a quarter of a second (exact in binary floating point) and carries   *)
(* it as the integer number of quarters, so fps * interval_seconds is the  *)
(* rational (video_fps * interval_seconds) / 4 and timestamps are counted  *)
(* in quarters of a second too.  The frame rate is a whole number.         *)
(***************************************************************************)
EXTENDS Integers, Sequences, FiniteSets, TLC

VARIABLES
    pc,                   \* position of the run inside main()
    run,                  \* 1 for the first run, 2 for the repeated run
    source,               \* the video file: "missing", "undecodable" or "ok"
    video_fps,            \* CAP_PROP_FPS of the file
    total_source_frames,  \* number of frames the decoder delivers
    interval_seconds,     \* --interval, in quarters of a second
    save_flagged_frames,  \* --save-flagged (output_dir is never empty)
    cap,                  \* the cv2.VideoCapture: "none", "failed", "open", "released"
    fps,                  \* extract_frames local
    frame_interval,       \* extract_frames local
    frame_count,          \* extract_frames local
    frames,               \* extract_frames local / analyze_video local: source indices kept
    results,              \* analyze_video's results dict, None before it is built
    idx,                  \* analyze_video loop index
    responses,            \* what the classification service and imwrite did for frame idx
    clock,                \* wall clock read by datetime.now()
    prev_results,         \* what the first run's analyze_video returned (None if it raised)
    json_written,         \* main wrote --json-output
    report_printed,       \* main printed the report
    exit_code,            \* status passed to exit(), -1 while running
    exc                   \* exception propagating to main's handler, "none" otherwise

vars == <<pc, run, source, video_fps, total_source_frames, interval_seconds,
          save_flagged_frames, cap, fps, frame_interval, frame_count, frames,
          results, idx, responses, clock, prev_results, json_written,
          report_printed, exit_code, exc>>

\* ------------------------------------------------------------------ bounds
MaxFps == 2
MaxIntervalQ == 3
MaxSrcFrames == 2
RerunMaxSrcFrames == 1
MaxClock == 1

\* ------------------------------------------------------- the data of the code
None == [kind |-> "None"]

Categories == {"adult", "spoof", "medical", "violence", "racy"}

\* likelihood_names of analyze_frame_safety (indexed from 0 in the code)
likelihood_names ==
    <<"UNKNOWN", "VERY_UNLIKELY", "UNLIKELY", "POSSIBLE", "LIKELY", "VERY_LIKELY">>

\* likelihood_levels of analyze_video
likelihood_levels ==
    [UNKNOWN |-> 0, VERY_UNLIKELY |-> 1, UNLIKELY |-> 2,
     POSSIBLE |-> 3, LIKELY |-> 4, VERY_LIKELY |-> 5]

\* f'max_{key}'
MaxKey(key) == CASE key = "adult" -> "max_adult"
                 [] key = "violence" -> "max_violence"
                 [] key = "medical" -> "max_medical"
                 [] key = "racy" -> "max_racy"
                 [] key = "spoof" -> "max_spoof"

\* The raw answers of the service the model draws from: one category at any
\* of the six enum values, the other four at VERY_UNLIKELY (enum value 1).
RawResponses ==
    {[k \in Categories |-> IF k = c THEN l ELSE 1] :
        c \in Categories, l \in 0..(Len(likelihood_names) - 1)}

\* ------------------------------------------------------- the frame sampler
\* os.path.exists(video_path)
PathExists(src) == src # "missing"

\* cv2.VideoCapture(video_path): the capture is open only for a decodable file
VideoCapture(src) == IF src = "ok" THEN "open" ELSE "failed"

IsOpenedAlways(c) == TRUE

\* cap.isOpened()
IsOpened(c) == c = "open"

\* cap.get(cv2.CAP_PROP_FPS): 0.0 on a capture that is not open
CapGetFps(c, vfps) == IF c = "open" THEN vfps ELSE 0

\* int(fps * interval_seconds): truncation; the interval is in quarters
FrameInterval(f, i) == (f * i) \div 4

\* ret of cap.read(): a capture that is not open delivers nothing
CapRead(c, count, total) == c = "open" /\ count < total

\* line 53: cap = cv2.VideoCapture(video_path)
ExtractOpen ==
    /\ pc = "extract_frames"
    /\ frames' = <<>>
    /\ cap' = VideoCapture(source)
    /\ pc' = "is_opened"
    /\ UNCHANGED <<run, source, video_fps, total_source_frames, interval_seconds,
                   save_flagged_frames, fps, frame_interval, frame_count, results,
                   idx, responses, clock, prev_results, json_written,
                   report_printed, exit_code, exc>>

\* lines 55-56: raise ValueError, the capture object is left as it is
ExtractOpenFails ==
    /\ pc = "is_opened"
    /\ ~IsOpened(cap)
    /\ exc' = "ValueError"
    /\ pc' = "except"
    /\ UNCHANGED <<run, source, video_fps, total_source_frames, interval_seconds,
                   save_flagged_frames, cap, fps, frame_interval, frame_count,
                   frames, results, idx, responses, clock, prev_results,
                   json_written, report_printed, exit_code>>

\* lines 58-62
ExtractStart ==
    /\ pc = "is_opened"
    /\ IsOpened(cap)
    /\ fps' = CapGetFps(cap, video_fps)
    /\ frame_interval' = FrameInterval(CapGetFps(cap, video_fps), interval_seconds)
    /\ frame_count' = 0
    /\ pc' = "read"
    /\ UNCHANGED <<run, source, video_fps, total_source_frames, interval_seconds,
                   save_flagged_frames, cap, frames, results, idx, responses,
                   clock, prev_results, json_written, report_printed, exit_code,
                   exc>>

\* lines 65-73, one pass of the loop with ret true and a non-zero stride
ReadFrame ==
    /\ pc = "read"
    /\ CapRead(cap, frame_count, total_source_frames)
    /\ frame_interval # 0
    /\ frames' = IF frame_count % frame_interval = 0
                 THEN Append(frames, frame_count) ELSE frames
    /\ frame_count' = frame_count + 1
    /\ UNCHANGED <<pc, run, source, video_fps, total_source_frames,
                   interval_seconds, save_flagged_frames, cap, fps,
                   frame_interval, results, idx, responses, clock, prev_results,
                   json_written, report_printed, exit_code, exc>>

\* line 69 with frame_interval = 0: frame_count % 0 raises ZeroDivisionError,
\* which leaves extract_frames before line 75
ReadFrameZeroDivision ==
    /\ pc = "read"
    /\ CapRead(cap, frame_count, total_source_frames)
    /\ frame_interval = 0
    /\ exc' = "ZeroDivisionError"
    /\ pc' = "except"
    /\ UNCHANGED <<run, source, video_fps, total_source_frames, interval_seconds,
                   save_flagged_frames, cap, fps, frame_interval, frame_count,
                   frames, results, idx, responses, clock, prev_results,
                   json_written, report_printed, exit_code>>

\* lines 66-67 and 75-77: ret false, release, return frames
ReadEnd ==
    /\ pc = "read"
    /\ ~CapRead(cap, frame_count, total_source_frames)
    /\ cap' = "released"
    /\ pc' = "prepare"
    /\ UNCHANGED <<run, source, video_fps, total_source_frames, interval_seconds,
                   save_flagged_frames, fps, frame_interval, frame_count, frames,
                   results, idx, responses, clock, prev_results, json_written,
                   report_printed, exit_code, exc>>

\* ------------------------------------------------------- the scorer
\* analyze_frame_safety: the five enum values of the response, by name
analyze_frame_safety(raw) ==
    [adult |-> likelihood_names[raw["adult"] + 1],
     spoof |-> likelihood_names[raw["spoof"] + 1],
     medical |-> likelihood_names[raw["medical"] + 1],
     violence |-> likelihood_names[raw["violence"] + 1],
     racy |-> likelihood_names[raw["racy"] + 1]]

\* lines 164-165: frame_result['frame_index'], frame_result['timestamp_seconds']
FrameResult(raw, i, interval) ==
    [k \in Categories \cup {"frame_index", "timestamp_seconds"} |->
        IF k = "frame_index" THEN i
        ELSE IF k = "timestamp_seconds" THEN i * interval
        ELSE analyze_frame_safety(raw)[k]]

\* ------------------------------------------------------- the aggregator
NewResultsCarried(n, interval, now) ==
    [total_frames_analyzed |-> n,
     interval_seconds |-> interval,
     timestamp |-> now,
     frame_results |-> <<>>,
     summary |-> IF prev_results = None
                 THEN [max_adult |-> "VERY_UNLIKELY", max_violence |-> "VERY_UNLIKELY",
                       max_medical |-> "VERY_UNLIKELY", max_racy |-> "VERY_UNLIKELY",
                       max_spoof |-> "VERY_UNLIKELY", flagged_frames |-> <<>>]
                 ELSE prev_results.summary]

\* lines 138-152: the results dict (video_path, a constant of the run, left out)
NewResults(n, interval, now) ==
    [total_frames_analyzed |-> n,
     interval_seconds |-> interval,
     timestamp |-> now,
     frame_results |-> <<>>,
     summary |-> [max_adult |-> "VERY_UNLIKELY", max_violence |-> "VERY_UNLIKELY",
                  max_medical |-> "VERY_UNLIKELY", max_racy |-> "VERY_UNLIKELY",
                  max_spoof |-> "VERY_UNLIKELY", flagged_frames |-> <<>>]]

NewMaxLast(current, candidate) == candidate

\* lines 170-171 for one key: replace the maximum only by a higher level
NewMax(current, candidate) ==
    IF likelihood_levels[candidate] > likelihood_levels[current]
    THEN candidate ELSE current

\* lines 169-171
UpdateSummary(summary, frame_result) ==
    [k \in DOMAIN summary |->
        IF \E key \in Categories : MaxKey(key) = k
        THEN NewMax(summary[k], frame_result[CHOOSE key \in Categories : MaxKey(key) = k])
        ELSE summary[k]]

IsFlaggedAnyCategory(frame_result) ==
    \E key \in Categories : likelihood_levels[frame_result[key]] >= 3

\* lines 174-178
IsFlagged(frame_result) ==
    \/ likelihood_levels[frame_result["adult"]] >= 3
    \/ likelihood_levels[frame_result["violence"]] >= 3
    \/ likelihood_levels[frame_result["racy"]] >= 3

\* lines 181-185
FlagRecord(frame_result) ==
    [frame_index |-> frame_result["frame_index"],
     timestamp_seconds |-> frame_result["timestamp_seconds"],
     reasons |-> frame_result]

\* lines 196-199
ErrorMarker(i, e) == [frame_index |-> i, error |-> e]

\* lines 166-185: the results after a frame was scored
Scored(res, frame_result) ==
    [res EXCEPT
        !.frame_results = Append(@, frame_result),
        !.summary = LET s == UpdateSummary(@, frame_result)
                    IN IF IsFlagged(frame_result)
                       THEN [s EXCEPT !.flagged_frames =
                                Append(@, FlagRecord(frame_result))]
                       ELSE s]

\* The service's answers are deterministic: a frame that was asked about
\* before (in the first run) gets the answer it got then.
Answers(o) == IF idx + 1 <= Len(responses) THEN responses[idx + 1] = o ELSE TRUE
Record(o) == IF idx + 1 <= Len(responses) THEN responses ELSE Append(responses, o)

\* lines 125-126
AnalyzeVideoMissing ==
    /\ pc = "analyze_video"
    /\ ~PathExists(source)
    /\ exc' = "FileNotFoundError"
    /\ pc' = "except"
    /\ UNCHANGED <<run, source, video_fps, total_source_frames, interval_seconds,
                   save_flagged_frames, cap, fps, frame_interval, frame_count,
                   frames, results, idx, responses, clock, prev_results,
                   json_written, report_printed, exit_code>>

\* lines 125-131: the file exists, call extract_frames
AnalyzeVideoStart ==
    /\ pc = "analyze_video"
    /\ PathExists(source)
    /\ pc' = "extract_frames"
    /\ UNCHANGED <<run, source, video_fps, total_source_frames, interval_seconds,
                   save_flagged_frames, cap, fps, frame_interval, frame_count,
                   frames, results, idx, responses, clock, prev_results,
                   json_written, report_printed, exit_code, exc>>

\* lines 134-135: os.makedirs raises (the directory cannot be created)
MakeDirsRaises ==
    /\ pc = "prepare"
    /\ save_flagged_frames
    /\ exc' = "OSError"
    /\ pc' = "except"
    /\ UNCHANGED <<run, source, video_fps, total_source_frames, interval_seconds,
                   save_flagged_frames, cap, fps, frame_interval, frame_count,
                   frames, results, idx, responses, clock, prev_results,
                   json_written, report_printed, exit_code>>

\* lines 133-157
BuildResults ==
    /\ pc = "prepare"
    /\ results' = NewResults(Len(frames), interval_seconds, clock)
    /\ idx' = 0
    /\ pc' = "loop"
    /\ UNCHANGED <<run, source, video_fps, total_source_frames, interval_seconds,
                   save_flagged_frames, cap, fps, frame_interval, frame_count,
                   frames, responses, clock, prev_results, json_written,
                   report_printed, exit_code, exc>>

\* lines 159-192 with no exception
FrameScored ==
    /\ pc = "loop"
    /\ idx < Len(frames)
    /\ \E raw \in RawResponses :
         LET o == [outcome |-> "scored", raw |-> raw] IN
         /\ Answers(o)
         /\ results' = Scored(results, FrameResult(raw, idx, interval_seconds))
         /\ responses' = Record(o)
    /\ idx' = idx + 1
    /\ UNCHANGED <<pc, run, source, video_fps, total_source_frames,
                   interval_seconds, save_flagged_frames, cap, fps,
                   frame_interval, frame_count, frames, clock, prev_results,
                   json_written, report_printed, exit_code, exc>>

FrameScoringRaisesAborts ==
    /\ pc = "loop"
    /\ idx < Len(frames)
    /\ LET o == [outcome |-> "scoring_raises"] IN
         /\ Answers(o)
         /\ results' = [results EXCEPT !.frame_results =
                           Append(@, ErrorMarker(idx, "ServiceError"))]
         /\ responses' = Record(o)
    /\ idx' = idx + 1
    /\ pc' = "json"
    /\ UNCHANGED <<run, source, video_fps, total_source_frames,
                   interval_seconds, save_flagged_frames, cap, fps,
                   frame_interval, frame_count, frames, clock, prev_results,
                   json_written, report_printed, exit_code, exc>>

\* line 163 raises: lines 194-199
FrameScoringRaises ==
    /\ pc = "loop"
    /\ idx < Len(frames)
    /\ LET o == [outcome |-> "scoring_raises"] IN
         /\ Answers(o)
         /\ results' = [results EXCEPT !.frame_results =
                           Append(@, ErrorMarker(idx, "ServiceError"))]
         /\ responses' = Record(o)
    /\ idx' = idx + 1
    /\ UNCHANGED <<pc, run, source, video_fps, total_source_frames,
                   interval_seconds, save_flagged_frames, cap, fps,
                   frame_interval, frame_count, frames, clock, prev_results,
                   json_written, report_printed, exit_code, exc>>

\* lines 163-185 succeed and cv2.imwrite (line 191) raises: lines 194-199 run
\* after the score, the maxima and the flag record were already stored
FrameSaveRaises ==
    /\ pc = "loop"
    /\ idx < Len(frames)
    /\ save_flagged_frames
    /\ \E raw \in RawResponses :
         LET o == [outcome |-> "save_raises", raw |-> raw]
             fr == FrameResult(raw, idx, interval_seconds) IN
         /\ IsFlagged(fr)
         /\ Answers(o)
         /\ results' = [Scored(results, fr) EXCEPT !.frame_results =
                           Append(@, ErrorMarker(idx, "cv2.error"))]
         /\ responses' = Record(o)
    /\ idx' = idx + 1
    /\ UNCHANGED <<pc, run, source, video_fps, total_source_frames,
                   interval_seconds, save_flagged_frames, cap, fps,
                   frame_interval, frame_count, frames, clock, prev_results,
                   json_written, report_printed, exit_code, exc>>

\* line 201
ReturnResults ==
    /\ pc = "loop"
    /\ idx = Len(frames)
    /\ pc' = "json"
    /\ UNCHANGED <<run, source, video_fps, total_source_frames, interval_seconds,
                   save_flagged_frames, cap, fps, frame_interval, frame_count,
                   frames, results, idx, responses, clock, prev_results,
                   json_written, report_printed, exit_code, exc>>

\* ------------------------------------------------------- main
\* line 274
CreateAnalyzer ==
    /\ pc = "main"
    /\ pc' = "analyze_video"
    /\ UNCHANGED <<run, source, video_fps, total_source_frames, interval_seconds,
                   save_flagged_frames, cap, fps, frame_interval, frame_count,
                   frames, results, idx, responses, clock, prev_results,
                   json_written, report_printed, exit_code, exc>>

\* line 274 (line 39) raises: no usable credentials
CreateAnalyzerRaises ==
    /\ pc = "main"
    /\ exc' = "DefaultCredentialsError"
    /\ pc' = "except"
    /\ UNCHANGED <<run, source, video_fps, total_source_frames, interval_seconds,
                   save_flagged_frames, cap, fps, frame_interval, frame_count,
                   frames, results, idx, responses, clock, prev_results,
                   json_written, report_printed, exit_code>>

\* lines 285-288: written when --json-output was given
SaveJson ==
    /\ pc = "json"
    /\ \E json_output \in BOOLEAN : json_written' = json_output
    /\ pc' = "report"
    /\ UNCHANGED <<run, source, video_fps, total_source_frames, interval_seconds,
                   save_flagged_frames, cap, fps, frame_interval, frame_count,
                   frames, results, idx, responses, clock, prev_results,
                   report_printed, exit_code, exc>>

\* line 286 raises: the JSON file cannot be written
SaveJsonRaises ==
    /\ pc = "json"
    /\ exc' = "OSError"
    /\ pc' = "except"
    /\ UNCHANGED <<run, source, video_fps, total_source_frames, interval_seconds,
                   save_flagged_frames, cap, fps, frame_interval, frame_count,
                   frames, results, idx, responses, clock, prev_results,
                   json_written, report_printed, exit_code>>

\* lines 291-292
PrintReport ==
    /\ pc = "report"
    /\ report_printed' = TRUE
    /\ pc' = "exit"
    /\ UNCHANGED <<run, source, video_fps, total_source_frames, interval_seconds,
                   save_flagged_frames, cap, fps, frame_interval, frame_count,
                   frames, results, idx, responses, clock, prev_results,
                   json_written, exit_code, exc>>

\* line 291 (line 248) raises: the report file cannot be written
PrintReportRaises ==
    /\ pc = "report"
    /\ exc' = "OSError"
    /\ pc' = "except"
    /\ UNCHANGED <<run, source, video_fps, total_source_frames, interval_seconds,
                   save_flagged_frames, cap, fps, frame_interval, frame_count,
                   frames, results, idx, responses, clock, prev_results,
                   json_written, report_printed, exit_code>>

ExitStatusZero(flagged_frames) == 0

\* lines 295-300: exit(1) if the list is not empty, exit(0) otherwise
ExitStatus(flagged_frames) == IF flagged_frames # <<>> THEN 1 ELSE 0

\* lines 295-300; SystemExit is not an Exception, line 302 does not catch it
ExitByFlags ==
    /\ pc = "exit"
    /\ exit_code' = ExitStatus(results.summary.flagged_frames)
    /\ pc' = "exited"
    /\ UNCHANGED <<run, source, video_fps, total_source_frames, interval_seconds,
                   save_flagged_frames, cap, fps, frame_interval, frame_count,
                   frames, results, idx, responses, clock, prev_results,
                   json_written, report_printed, exc>>

\* lines 302-304
HandleException ==
    /\ pc = "except"
    /\ exit_code' = 1
    /\ pc' = "exited"
    /\ UNCHANGED <<run, source, video_fps, total_source_frames, interval_seconds,
                   save_flagged_frames, cap, fps, frame_interval, frame_count,
                   frames, results, idx, responses, clock, prev_results,
                   json_written, report_printed, exc>>

\* analyze_video returned in this run (main's `results` is bound)
Returned ==
    \/ pc \in {"json", "report", "exit"}
    \/ pc \in {"except", "exited"} /\ results # None /\ exc \in {"none", "OSError"}

\* The same command is started again on the same video at a later time: a
\* new process, so every local starts afresh; the service will answer as before.
Rerun ==
    /\ pc = "exited"
    /\ run = 1
    /\ run' = 2
    /\ prev_results' = IF Returned THEN results ELSE None
    /\ \E now \in clock..MaxClock : clock' = now
    /\ pc' = "main"
    /\ cap' = "none"
    /\ fps' = 0
    /\ frame_interval' = 0
    /\ frame_count' = 0
    /\ frames' = <<>>
    /\ results' = None
    /\ idx' = 0
    /\ json_written' = FALSE
    /\ report_printed' = FALSE
    /\ exit_code' = -1
    /\ exc' = "none"
    /\ UNCHANGED <<source, video_fps, total_source_frames, interval_seconds,
                   save_flagged_frames, responses>>

\* ------------------------------------------------------- specifications
InitWith(maxSrc) ==
    /\ pc = "main"
    /\ run = 1
    /\ source \in {"missing", "undecodable", "ok"}
    /\ video_fps \in IF source = "ok" THEN 0..MaxFps ELSE {0}
    /\ total_source_frames \in IF source = "ok" THEN 0..maxSrc ELSE {0}
    /\ interval_seconds \in 1..MaxIntervalQ
    /\ save_flagged_frames \in BOOLEAN
    /\ cap = "none"
    /\ fps = 0
    /\ frame_interval = 0
    /\ frame_count = 0
    /\ frames = <<>>
    /\ results = None
    /\ idx = 0
    /\ responses = <<>>
    /\ clock = 0
    /\ prev_results = None
    /\ json_written = FALSE
    /\ report_printed = FALSE
    /\ exit_code = -1
    /\ exc = "none"

Init == InitWith(MaxSrcFrames)

Next ==
    \/ CreateAnalyzer
    \/ CreateAnalyzerRaises
    \/ AnalyzeVideoMissing
    \/ AnalyzeVideoStart
    \/ ExtractOpen
    \/ ExtractOpenFails
    \/ ExtractStart
    \/ ReadFrame
    \/ ReadFrameZeroDivision
    \/ ReadEnd
    \/ MakeDirsRaises
    \/ BuildResults
    \/ FrameScored
    \/ FrameScoringRaises
    \/ FrameSaveRaises
    \/ ReturnResults
    \/ SaveJson
    \/ SaveJsonRaises
    \/ PrintReport
    \/ PrintReportRaises
    \/ ExitByFlags
    \/ HandleException

Spec == Init /\ [][Next]_vars

\* Two runs of the command, one after the other, on the same video.
InitRerun == InitWith(RerunMaxSrcFrames)

NextRerun == Next \/ Rerun

SpecRerun == InitRerun /\ [][NextRerun]_vars

\* ------------------------------------------------------- the properties
\* The rank of a Likelihood name in the order
\* UNKNOWN < VERY_UNLIKELY < UNLIKELY < POSSIBLE < LIKELY < VERY_LIKELY.
Rank(name) == CASE name = "UNKNOWN" -> 0
                [] name = "VERY_UNLIKELY" -> 1
                [] name = "UNLIKELY" -> 2
                [] name = "POSSIBLE" -> 3
                [] name = "LIKELY" -> 4
                [] name = "VERY_LIKELY" -> 5

SetMax(S) == CHOOSE x \in S : \A y \in S : y <= x

\* Frames of this run the loop is done with, and those among them the
\* service scored.
Processed == IF results = None THEN {} ELSE 0..(idx - 1)
ScoredFrames == {i \in Processed : responses[i + 1].outcome # "scoring_raises"}
FailedFrames == {i \in Processed : responses[i + 1].outcome = "scoring_raises"}

\* The service's own numbers for a category over the scored frames.
Seen(c) == {responses[i + 1].raw[c] : i \in ScoredFrames}

\* Flag predicate on the service's own numbers for frame i.
Critical(i) ==
    \/ responses[i + 1].raw["adult"] >= 3
    \/ responses[i + 1].raw["violence"] >= 3
    \/ responses[i + 1].raw["racy"] >= 3

FlaggedFrames == IF results = None THEN <<>> ELSE results.summary.flagged_frames
FlaggedIndices == {FlaggedFrames[k].frame_index : k \in DOMAIN FlaggedFrames}
IsErrorEntry(e) == "error" \in DOMAIN e
IsScoreEntry(e) == "adult" \in DOMAIN e

\* C1 as claimed: each summary maximum equals the highest rank the service
\* gave that category among the scored frames processed so far.
C1_MaxEqualsTrueMax ==
    results # None =>
        \A c \in Categories :
            Seen(c) # {} => Rank(results.summary[MaxKey(c)]) = SetMax(Seen(c))

C1_MaxEqualsFlooredMax ==
    results # None =>
        \A c \in Categories :
            Rank(results.summary[MaxKey(c)]) = SetMax(Seen(c) \cup {1})

C1_MaxNonDecreasing ==
    (results # None /\ results' # None) =>
        \A c \in Categories :
            Rank(results'.summary[MaxKey(c)]) >= Rank(results.summary[MaxKey(c)])

\* C1 amended: after every prefix of the frames each summary maximum never
\* decreases from one frame to the next and equals the higher of
\* VERY_UNLIKELY (rank 1, the initial value) and the highest rank the service
\* gave that category among the scored frames of the prefix.
C1_RunningMaxima == [](C1_MaxEqualsFlooredMax) /\ [][C1_MaxNonDecreasing]_vars

\* C1 witness: two frames processed, the first raised a maximum above the
\* floor and the second scored that category lower.
C1_Witness ==
    /\ results # None
    /\ idx = 2
    /\ ScoredFrames = {0, 1}
    /\ \E c \in Categories :
         /\ responses[1].raw[c] = 4
         /\ responses[2].raw[c] = 0
         /\ results.summary[MaxKey(c)] = "LIKELY"

\* C2: a processed frame has a record in flagged_frames iff the service
\* scored it and gave adult, violence or racy rank >= 3 in that frame; frames
\* not yet processed have none.
C2_FlaggedIffOwnScores ==
    results # None =>
        /\ \A i \in Processed :
             i \in FlaggedIndices <=> (i \in ScoredFrames /\ Critical(i))
        /\ FlaggedIndices \subseteq Processed

\* C2 witness: frame 0 was flagged for adult, frame 1 has medical VERY_LIKELY
\* and is not flagged although max_adult is at LIKELY.
C2_Witness ==
    /\ results # None
    /\ idx = 2
    /\ ScoredFrames = {0, 1}
    /\ responses[1].raw["adult"] = 4
    /\ responses[2].raw["medical"] = 5
    /\ FlaggedIndices = {0}
    /\ results.summary["max_adult"] = "LIKELY"
    /\ results.summary["max_medical"] = "VERY_LIKELY"

EarlierSaveFailures(j) ==
    {i \in 0..(j - 1) : responses[i + 1].outcome = "save_raises"}

\* C3: at the return of analyze_video, total_frames_analyzed is the number
\* of sampled frames, every sampled frame has an entry in frame_results, a
\* frame whose scoring raised has an error marker carrying its frame index
\* (at position j when no earlier frame's processing raised after scoring),
\* no score entry and no flag record, and the maxima and the flagged list
\* are those of the other frames.
C3_ErrorContained ==
    pc = "json" =>
        LET fr == results.frame_results IN
        /\ results.total_frames_analyzed = Len(frames)
        /\ idx = Len(frames)
        /\ \A j \in 0..(Len(frames) - 1) :
             \E k \in DOMAIN fr : fr[k].frame_index = j
        /\ \A j \in FailedFrames :
             /\ \E k \in DOMAIN fr : fr[k].frame_index = j /\ IsErrorEntry(fr[k])
             /\ ~\E k \in DOMAIN fr : fr[k].frame_index = j /\ IsScoreEntry(fr[k])
             /\ EarlierSaveFailures(j) = {} =>
                    (fr[j + 1].frame_index = j /\ IsErrorEntry(fr[j + 1]))
             /\ j \notin FlaggedIndices
        /\ \A c \in Categories :
             Rank(results.summary[MaxKey(c)]) = SetMax(Seen(c) \cup {1})
        /\ FlaggedIndices = {i \in ScoredFrames : Critical(i)}
        /\ \A k \in 1..(Len(FlaggedFrames) - 1) :
             FlaggedFrames[k].frame_index < FlaggedFrames[k + 1].frame_index

\* C3 witness: two sampled frames, scoring of frame 0 raised, frame 1 was
\* scored and flagged, analyze_video returned.
C3_Witness ==
    /\ pc = "json"
    /\ Len(frames) = 2
    /\ FailedFrames = {0}
    /\ FlaggedIndices = {1}
    /\ results.total_frames_analyzed = 2

\* round(frame_rate * interval_seconds), halves to the even neighbour
Round(f, i) ==
    LET q == (f * i) \div 4
        r == (f * i) % 4
    IN IF r < 2 THEN q
       ELSE IF r > 2 THEN q + 1
       ELSE IF q % 2 = 0 THEN q ELSE q + 1

Stride(f, i) == IF Round(f, i) >= 1 THEN Round(f, i) ELSE 1

Ceil(n, d) == (n + d - 1) \div d

\* C4 as claimed: extract_frames returns ceil(total_source_frames /
\* max(1, round(f*i))) frames, the k-th being source frame k * round(f*i).
C4_SampledEveryRoundedStride ==
    pc = "prepare" =>
        LET stride == Stride(video_fps, interval_seconds) IN
        /\ Len(frames) = Ceil(total_source_frames, stride)
        /\ \A k \in 0..(Len(frames) - 1) : frames[k + 1] = k * stride

\* C5 as claimed: when frame_rate * interval_seconds rounds to zero and the
\* video has a frame, no division error is raised and every source frame is
\* returned.
C5_ZeroStrideEmitsEveryFrame ==
    (source = "ok" /\ Round(video_fps, interval_seconds) = 0
        /\ total_source_frames >= 1) =>
        /\ exc # "ZeroDivisionError"
        /\ pc = "prepare" =>
             frames = [k \in 1..total_source_frames |-> k - 1]

\* C6: with a missing or undecodable source the run goes from the check
\* straight to main's handler: no results dict is built, no frame is scored,
\* no JSON and no report are produced; and whenever analyze_video has
\* returned, every sampled frame was processed.
C6_SourceFailureIsFatal ==
    /\ source = "missing" =>
         pc \in {"main", "analyze_video", "except", "exited"}
    /\ source = "undecodable" =>
         pc \in {"main", "analyze_video", "extract_frames", "is_opened",
                 "except", "exited"}
    /\ source # "ok" =>
         /\ results = None
         /\ responses = <<>>
         /\ ~json_written
         /\ ~report_printed
         /\ ~Returned
         /\ pc = "exited" => (exit_code = 1 /\ exc # "none")
    /\ Returned =>
         /\ idx = Len(frames)
         /\ \A j \in 0..(Len(frames) - 1) :
              \E k \in DOMAIN results.frame_results :
                  results.frame_results[k].frame_index = j

\* C6 witness: the file exists but cannot be opened and the run has ended.
C6_Witness ==
    /\ pc = "exited"
    /\ source = "undecodable"
    /\ exc = "ValueError"
    /\ cap = "failed"

Completed == exc = "none" /\ results # None

\* C7 as claimed: status "clean" exactly when the run completed with no
\* flagged frame, status "flagged" exactly when it completed with at least one.
C7_StatusTellsFlaggedFromAllElse ==
    pc = "exited" =>
        /\ exit_code = 0 <=> (Completed /\ FlaggedFrames = <<>>)
        /\ exit_code = 1 <=> (Completed /\ FlaggedFrames # <<>>)

\* C7 amended: main ends with status 0 exactly when the run completed without
\* an exception and with no flagged frame; it ends with status 1 both when the
\* run completed with at least one flagged frame and when an exception reached
\* main's handler, so status 1 does not tell a flagged video from a failed run.
C7_StatusZeroIffClean ==
    pc = "exited" =>
        /\ exit_code = 0 <=> (Completed /\ FlaggedFrames = <<>>)
        /\ exit_code = 1 <=> (exc # "none" \/ FlaggedFrames # <<>>)

\* C7 witness: a run that ended with status 1 without any exception, by a
\* flagged frame.
C7_Witness ==
    /\ pc = "exited"
    /\ exit_code = 1
    /\ exc = "none"
    /\ Len(FlaggedFrames) >= 1

C9_OneEntryPerFrame ==
    results # None =>
        \A k \in DOMAIN results.frame_results :
            results.frame_results[k].frame_index = k - 1

\* C10 as claimed: outside extract_frames the capture is never still open.
C10_CaptureReleasedOnExit ==
    pc \notin {"extract_frames", "is_opened", "read"} => cap # "open"

====
